---- MODULE Spec2Model ----
(***************************************************************************)
(* Model of dask_sql.context.Context: the table and function registries,   *)
(* the registration methods, and sql() with its schema building, its calls *)
(* to the external parser/optimizer, the plan conversion and the final     *)
(* renaming of EXPR$ columns.                                              *)
(*                                                                         *)
(* A string is a sequence of one-character strings, so that str.lower()    *)
(* and str.startswith() are computed and not assumed. A Python dict is a   *)
(* sequence of [key, value] records in insertion order.                    *)
(***************************************************************************)
EXTENDS Integers, Sequences, FiniteSets, TLC

VARIABLES tables, functions, aggregations, call, out, threads

vars == <<tables, functions, aggregations, call, out, threads>>

\* ------------------------------------------------------------------ bounds
\* Longest column list of a converted Data Container
MaxCols == 2
\* Longest select list the parser hands back
MaxSelect == 2

\* ----------------------------------------------------------------- strings
\* "EXPR$", the prefix Calcite gives to unnamed expressions
EXPR == <<"E", "X", "P", "R", "$">>

\* str.lower() on one character of the model's alphabet
LowerChar(c) ==
    CASE c = "T" -> "t"
      [] c = "U" -> "u"
      [] c = "F" -> "f"
      [] c = "E" -> "e"
      [] c = "X" -> "x"
      [] c = "P" -> "p"
      [] c = "R" -> "r"
      [] OTHER -> c

\* str.lower()
lower(s) == [i \in 1..Len(s) |-> LowerChar(s[i])]

\* str.startswith(prefix)
startswith(s, prefix) ==
    /\ Len(s) >= Len(prefix)
    /\ SubSeq(s, 1, Len(prefix)) = prefix

\* -------------------------------------------------------------------- dict
\* dict.keys(), in insertion order
DictKeys(d) == [i \in 1..Len(d) |-> d[i].key]

\* key in d
DictHas(d, k) == \E i \in 1..Len(d) : d[i].key = k

\* d[k], for a key that is present
DictGet(d, k) == d[CHOOSE i \in 1..Len(d) : d[i].key = k].value

\* d[k] = v: an existing key keeps its position, a new key is appended
DictSet(d, k, v) ==
    IF DictHas(d, k)
    THEN [i \in 1..Len(d) |-> IF d[i].key = k THEN [key |-> k, value |-> v] ELSE d[i]]
    ELSE Append(d, [key |-> k, value |-> v])

\* ------------------------------------------------------------- containers
\* ColumnContainer(columns): every Logical Name is its own Physical Label
ColumnContainer(columns) ==
    [i \in 1..Len(columns) |-> [name |-> columns[i], label |-> columns[i]]]

\* ColumnContainer.columns: the Logical Names in output order
Columns(cc) == [i \in 1..Len(cc) |-> cc[i].name]

\* The Physical Labels of a container, in output order
Labels(cc) == [i \in 1..Len(cc) |-> cc[i].label]

\* DataContainer(df, column_container)
DataContainer(df, cc) == [df |-> df, column_container |-> cc]

\* df.copy(): a new dataframe object with the same columns, dtypes and data
copy(df) == df

\* ---------------------------------------------------------- registration
\* register_dask_table storing under the name as given, not case-folded
register_dask_table_as_given(tbls, df, name) ==
    DictSet(tbls, name, DataContainer(copy(df), ColumnContainer(df.columns)))

\* The registry after register_dask_table(df, name)
register_dask_table(tbls, df, name) ==
    DictSet(tbls, lower(name), DataContainer(copy(df), ColumnContainer(df.columns)))

\* FunctionDescription(f, parameters, return_type, aggregation)
FunctionDescription(f, parameters, return_type, aggregation) ==
    [f |-> f, parameters |-> parameters, return_type |-> return_type,
     aggregation |-> aggregation]

\* The function registry after register_function(f, name, parameters, return_type)
register_function(fns, f, name, parameters, return_type) ==
    DictSet(fns, lower(name), FunctionDescription(f, parameters, return_type, FALSE))

\* register_aggregation that keeps an entry already registered under the name
register_aggregation_keep_old(fns, f, name, parameters, return_type) ==
    IF DictHas(fns, lower(name))
    THEN fns
    ELSE DictSet(fns, lower(name), FunctionDescription(f, parameters, return_type, TRUE))

\* The function registry after register_aggregation(f, name, parameters, return_type)
register_aggregation(fns, f, name, parameters, return_type) ==
    DictSet(fns, lower(name), FunctionDescription(f, parameters, return_type, TRUE))

\* ------------------------------------------------------------ type mapping
\* The SQL type python_to_sql_type finds for the dtypes that have one
SqlTypeOf(t) ==
    CASE t = "int64" -> "BIGINT"
      [] t = "float64" -> "DOUBLE"
      [] OTHER -> "NONE"

\* python_to_sql_type raises for a dtype with no SQL equivalent
HasNoSqlType(t) == SqlTypeOf(t) = "NONE"

\* python_to_sql_type(t), for a dtype that has a SQL type
python_to_sql_type(t) == SqlTypeOf(t)

\* ------------------------------------------------------------------ schema
\* The DaskTable built for one registry entry: the columns of dc.df
SchemaTable(entry) ==
    [name |-> entry.key,
     columns |-> [i \in 1..Len(entry.value.df.columns) |->
                    [name |-> entry.value.df.columns[i],
                     type |-> python_to_sql_type(entry.value.df.dtypes[i])]]]

\* Every function built as a DaskScalarFunction
FunctionClass_scalar_only(function_description) == "DaskScalarFunction"

\* The Java class of the function built for a FunctionDescription
FunctionClass(function_description) ==
    IF function_description.aggregation
    THEN "DaskAggregateFunction"
    ELSE "DaskScalarFunction"

\* The parameters _add_parameters_from_description adds to a function
AddedParameters(function_description) ==
    [i \in 1..Len(function_description.parameters) |->
        [name |-> function_description.parameters[i][1],
         type |-> python_to_sql_type(function_description.parameters[i][2])]]

\* _add_parameters_from_description raises: a parameter type has no SQL type
AddParametersRaises(function_description) ==
    \E i \in 1..Len(function_description.parameters) :
        HasNoSqlType(function_description.parameters[i][2])

\* The DaskScalarFunction / DaskAggregateFunction built for one registry entry
SchemaFunction(entry) ==
    [class |-> FunctionClass(entry.value),
     name |-> entry.key,
     return_type |-> python_to_sql_type(entry.value.return_type),
     parameters |-> AddedParameters(entry.value)]

\* _prepare_schema that converts the column types only, leaving the types
\* of the functions to be converted later
PrepareSchemaRaises_tables_only(tbls, fns) ==
    \E i \in 1..Len(tbls) : \E j \in 1..Len(tbls[i].value.df.dtypes) :
        HasNoSqlType(tbls[i].value.df.dtypes[j])

\* _prepare_schema raises instead of returning a schema
PrepareSchemaRaises(tbls, fns) ==
    \/ \E i \in 1..Len(tbls) : \E j \in 1..Len(tbls[i].value.df.dtypes) :
            HasNoSqlType(tbls[i].value.df.dtypes[j])
    \/ \E i \in 1..Len(fns) :
            \/ HasNoSqlType(fns[i].value.return_type)
            \/ AddParametersRaises(fns[i].value)

\* The DaskSchema _prepare_schema returns: one addTable per tables item and
\* one addFunction per functions item, in the order of the dicts
PrepareSchema(tbls, fns) ==
    [tables |-> [i \in 1..Len(tbls) |-> SchemaTable(tbls[i])],
     functions |-> [i \in 1..Len(fns) |-> SchemaFunction(fns[i])]]

\* ------------------------------------------------------ column containers
\* ColumnContainer.rename(mapping): Logical Names substituted per mapping,
\* names absent from the mapping kept, Physical Labels and order kept
rename(cc, mapping) ==
    [i \in 1..Len(cc) |->
        [name |-> IF DictHas(mapping, cc[i].name)
                  THEN DictGet(mapping, cc[i].name)
                  ELSE cc[i].name,
         label |-> cc[i].label]]

\* DataContainer.assign() fails: a Physical Label is not a column of the df
AssignRaises(dc) ==
    \E i \in 1..Len(dc.column_container) :
        \A j \in 1..Len(dc.df.columns) :
            dc.df.columns[j] # dc.column_container[i].label

\* DataContainer.assign(): the dataframe with its physical columns relabelled
\* to the Logical Names, in the container's order
assign(dc) ==
    [columns |-> Columns(dc.column_container),
     dtypes |-> [i \in 1..Len(dc.column_container) |->
                    dc.df.dtypes[CHOOSE j \in 1..Len(dc.df.columns) :
                        dc.df.columns[j] = dc.column_container[i].label]],
     data |-> dc.df.data]

\* The Physical Label the conversion plugins give to the i-th output column
PhysLabel(i) == <<ToString(i)>>

\* The Data Container a Project/Aggregate/... plan converts to: the given
\* Logical Names over freshly labelled physical columns
ConvertedContainer(columns) ==
    DataContainer(
        [columns |-> [i \in 1..Len(columns) |-> PhysLabel(i)],
         dtypes |-> [i \in 1..Len(columns) |-> "int64"],
         data |-> "q"],
        [i \in 1..Len(columns) |-> [name |-> columns[i], label |-> PhysLabel(i)]])

\* The LogicalTableScan plugin: the registered Data Container, unchanged
TableScan(tbls, name) == DictGet(tbls, name)

\* --------------------------------------------------------- final renaming
\* Every zipped column taking the select name, EXPR$ or not
RenameTarget_every_column(df_col, select_name) == select_name

\* The dict value of one zip item: EXPR$ columns take the select name
RenameTarget(df_col, select_name) ==
    IF ~startswith(df_col, EXPR) THEN df_col ELSE select_name

\* zip(cc.columns, select_names) stops at the shorter of the two
ZipLen(columns, select_names) ==
    IF Len(columns) <= Len(select_names) THEN Len(columns) ELSE Len(select_names)

RECURSIVE RenameDict(_, _, _)
\* The dict comprehension over the first n zip items (a later item with the
\* same key overwrites an earlier one)
RenameDict(columns, select_names, n) ==
    IF n = 0
    THEN << >>
    ELSE DictSet(RenameDict(columns, select_names, n - 1),
                 columns[n], RenameTarget(columns[n], select_names[n]))

\* The mapping handed to cc.rename
RenameMapping(columns, select_names) ==
    RenameDict(columns, select_names, ZipLen(columns, select_names))

\* An optional value is a sequence of length 0 (None) or 1
None == << >>
Some(x) == <<x>>

\* "if select_names:" -- neither None nor an empty list
Truthy(select_names) == select_names # None /\ Len(select_names[1]) > 0

\* The Data Container sql() hands to assign(): renamed when select names
\* were captured, the converted one otherwise
FinalContainer(dc, select_names) ==
    IF Truthy(select_names)
    THEN DataContainer(dc.df,
            rename(dc.column_container,
                   RenameMapping(Columns(dc.column_container), select_names[1])))
    ELSE dc

\* The renaming step assigning the renamed container to the converted Data
\* Container, which after a table scan is the registry's own
TablesAfterRename_in_place(tbls, ref, dc) ==
    IF ref = None THEN tbls ELSE DictSet(tbls, ref[1], dc)

\* The table registry after the renaming step: sql() builds a new
\* DataContainer and leaves the converted one, which a table scan took from
\* the registry (ref), as it is
TablesAfterRename(tbls, ref, dc) == tbls

\* -------------------------------------------------------------------- sql
\* The except clause chaining the external exception whatever debug is
from_chained_exception_always(debug, e) == Some(e)

\* The exception the except clause chains from: the external one with debug
\* set, None (cause suppressed) otherwise
from_chained_exception(debug, e) == IF debug THEN Some(e) ELSE None

\* ParsingException(sql, str(e.message())) raised from from_chained_exception
ParsingException(sql, debug, e) ==
    [type |-> "ParsingException", sql |-> sql, message |-> e.message,
     cause |-> from_chained_exception(debug, e)]

\* The failure of python_to_sql_type inside _prepare_schema
TypeMappingError ==
    [type |-> "TypeMappingError", sql |-> "", message |-> "", cause |-> None]

\* The external exception an answer of the parser stands for
ExternalException(answer) == [type |-> answer.kind, message |-> answer.message]

\* select_names of _get_ral: the select list of a SqlSelect, None otherwise
SelectNames(answer) ==
    IF answer.class = "org.apache.calcite.sql.SqlSelect"
    THEN Some(answer.select_list)
    ELSE None

\* RelConverter.convert(rel, context): a table scan takes the registered Data
\* Container, any other plan yields the container its plugins build
Convert(rel, tbls) ==
    IF rel.node = "LogicalTableScan"
    THEN TableScan(tbls, rel.table[1])
    ELSE ConvertedContainer(rel.columns)

\* The calls _get_ral makes up to and including the one that raises
GetRalTrace(answer) ==
    CASE answer.kind = "SqlParseException" -> <<"_prepare_schema", "getSqlNode">>
      [] answer.kind = "ValidationException" ->
            <<"_prepare_schema", "getSqlNode", "getValidatedNode">>
      [] OTHER ->
            <<"_prepare_schema", "getSqlNode", "getValidatedNode",
              "getRelationalAlgebra", "getOptimizedRelationalAlgebra">>

\* What one call of sql(sql, debug) does and returns, the parser answering
\* `answer` (chosen among ExternalAnswers of the schema when one is built)
SqlOutcome(tbls, fns, sql, debug, answer) ==
    IF PrepareSchemaRaises(tbls, fns)
    THEN [op |-> "sql", sql |-> sql, debug |-> debug,
          trace |-> <<"_prepare_schema">>,
          schema |-> None, select_names |-> None, ref |-> None,
          dc |-> None, final |-> None, result |-> None,
          raised |-> <<TypeMappingError>>]
    ELSE IF answer.kind # "ok"
    THEN [op |-> "sql", sql |-> sql, debug |-> debug,
          trace |-> GetRalTrace(answer),
          schema |-> Some(PrepareSchema(tbls, fns)),
          select_names |-> None, ref |-> None,
          dc |-> None, final |-> None, result |-> None,
          raised |-> <<ParsingException(sql, debug, ExternalException(answer))>>]
    ELSE LET select_names == SelectNames(answer)
             dc == Convert(answer.rel, tbls)
             final == FinalContainer(dc, select_names)
         IN [op |-> "sql", sql |-> sql, debug |-> debug,
             trace |-> GetRalTrace(answer) \o <<"convert">>
                        \o (IF Truthy(select_names) THEN <<"rename">> ELSE << >>)
                        \o <<"assign">>,
             schema |-> Some(PrepareSchema(tbls, fns)),
             select_names |-> select_names,
             ref |-> answer.rel.table,
             dc |-> Some(dc), final |-> Some(final),
             result |-> IF AssignRaises(final) THEN None ELSE Some(assign(final)),
             raised |-> IF AssignRaises(final)
                        THEN <<[type |-> "SchemaError", sql |-> "", message |-> "",
                                cause |-> None]>>
                        ELSE << >>]

\* ------------------------------------------------------------------ inputs
\* Table names handed to register_dask_table: two case variants and another
TableNames == {<<"t">>, <<"T">>, <<"u">>}

\* Function names handed to register_function / register_aggregation
FunctionNames == {<<"f">>, <<"F">>}

\* Column names
ColA == <<"a">>
ColB == <<"b">>
Expr0 == EXPR \o <<"0">>
Expr1 == EXPR \o <<"1">>

\* Dataframes handed to register_dask_table: an ordinary one, one whose first
\* column the user named EXPR$0, and one with a dtype that has no SQL type
Frames ==
    { [columns |-> <<ColA, ColB>>, dtypes |-> <<"int64", "float64">>, data |-> "d1"],
      [columns |-> <<Expr0, ColA>>, dtypes |-> <<"int64", "int64">>, data |-> "d2"],
      [columns |-> <<ColB>>, dtypes |-> <<"complex128">>, data |-> "d3"] }

\* (callable, parameters, return_type) triples handed to the function registrations
FunctionArgs ==
    { [f |-> "f1", parameters |-> << <<"x", "int64">> >>, return_type |-> "float64"],
      [f |-> "f2", parameters |-> << >>, return_type |-> "int64"],
      [f |-> "f3", parameters |-> << <<"x", "complex128">> >>, return_type |-> "int64"],
      [f |-> "f4", parameters |-> << <<"x", "int64">> >>, return_type |-> "complex128"] }

\* Query texts handed to sql()
QueryTexts == {"q1", "q2"}

\* Messages of the external parser and validator
Messages == {"parse failed", "validation failed"}

\* Select-list items as the parser prints them
Star == <<"*">>
SelectItems == {Star, ColA}

\* Logical Names a converted Data Container can carry
LogicalNames == {Expr0, Expr1, ColA}

\* The non-empty sequences over S of length at most n
SeqsUpTo(S, n) == UNION {[1..k -> S] : k \in 1..n}

\* The name-unique ones among them
UniqueSeqsUpTo(S, n) ==
    {s \in SeqsUpTo(S, n) : \A i, j \in 1..Len(s) : i # j => s[i] # s[j]}

\* The shapes of a plain SELECT that is no SELECT * FROM <table>: a select
\* list and the Logical Names of the converted result, of any lengths up to
\* the bounds (a "*" item and a sub-select make them differ)
SelectShapes ==
    {[select_list |-> sel, columns |-> cols] :
        sel \in SeqsUpTo(SelectItems, MaxSelect),
        cols \in UniqueSeqsUpTo(LogicalNames, MaxCols)}

\* The shapes of a query whose top-level node is no SqlSelect
UnionShapes == UniqueSeqsUpTo(LogicalNames, MaxCols)

\* One-column examples of both, for the runs that vary the registries
SampleSelects ==
    {[select_list |-> <<ColA>>, columns |-> <<Expr0>>],
     [select_list |-> <<Star>>, columns |-> <<ColA>>]}
SampleUnions == {<<Expr0>>, <<ColA>>}

\* What the external parser can answer for a schema: a parse failure, a
\* validation failure, or a SqlNode with its optimized plan. The plans are
\* SELECT * FROM <a table of the schema>, the plain SELECTs of the shapes
\* `selects`, and the non-SELECT queries with the output columns `unions`
ExternalAnswers(schema, selects, unions) ==
    {[kind |-> "SqlParseException", message |-> m] : m \in Messages}
    \cup {[kind |-> "ValidationException", message |-> m] : m \in Messages}
    \cup {[kind |-> "ok",
           class |-> "org.apache.calcite.sql.SqlSelect",
           select_list |-> <<Star>>,
           rel |-> [node |-> "LogicalTableScan", table |-> Some(schema.tables[i].name),
                    columns |-> << >>]] : i \in 1..Len(schema.tables)}
    \cup {[kind |-> "ok",
           class |-> "org.apache.calcite.sql.SqlSelect",
           select_list |-> shape.select_list,
           rel |-> [node |-> "LogicalProject", table |-> None,
                    columns |-> shape.columns]] : shape \in selects}
    \cup {[kind |-> "ok",
           class |-> "org.apache.calcite.sql.SqlBasicCall",
           select_list |-> << >>,
           rel |-> [node |-> "LogicalUnion", table |-> None, columns |-> cols]] :
            cols \in unions}

\* The is-aggregation flag of the entry a function registration finds under
\* the case-folded name, None when there is none (kept with the call record)
PreviousFlag(fns, name) ==
    IF \E i \in 1..Len(fns) : lower(fns[i].key) = lower(name)
    THEN Some(fns[CHOOSE i \in 1..Len(fns) : lower(fns[i].key) = lower(name)].value.aggregation)
    ELSE None

\* No sql() call has been made yet, or the last call was a registration
NoOutcome == [op |-> "none"]

\* The threads that call sql() concurrently
Threads == {"A", "B"}

\* A thread outside sql()
Idle ==
    [pc |-> "idle", tables0 |-> << >>, functions0 |-> << >>, schema |-> None,
     rel |-> None, select_names |-> None, dc |-> None, final |-> None,
     result |-> None]

\* No sql() call is in flight on any thread
AllIdle == \A th \in Threads : threads[th].pc = "idle"

\* -------------------------------------------------------------------- init
\* Context.__init__
Init ==
    /\ tables = << >>
    /\ functions = << >>
    /\ aggregations = << >>
    /\ call = [op |-> "__init__"]
    /\ out = NoOutcome
    /\ threads = [th \in Threads |-> Idle]

\* ----------------------------------------------------------------- actions
RegisterDaskTable ==
    /\ AllIdle
    /\ \E df \in Frames, name \in TableNames :
        /\ tables' = register_dask_table(tables, df, name)
        /\ call' = [op |-> "register_dask_table", name |-> name, df |-> df]
    /\ out' = NoOutcome
    /\ UNCHANGED <<functions, aggregations, threads>>

RegisterFunction ==
    /\ AllIdle
    /\ \E a \in FunctionArgs, name \in FunctionNames :
        /\ functions' = register_function(functions, a.f, name, a.parameters, a.return_type)
        /\ call' = [op |-> "register_function", name |-> name, args |-> a,
                    previous |-> PreviousFlag(functions, name)]
    /\ out' = NoOutcome
    /\ UNCHANGED <<tables, aggregations, threads>>

RegisterAggregation ==
    /\ AllIdle
    /\ \E a \in FunctionArgs, name \in FunctionNames :
        /\ functions' = register_aggregation(functions, a.f, name, a.parameters, a.return_type)
        /\ call' = [op |-> "register_aggregation", name |-> name, args |-> a,
                    previous |-> PreviousFlag(functions, name)]
    /\ out' = NoOutcome
    /\ UNCHANGED <<tables, aggregations, threads>>

\* What the parser was asked and answered in a call, kept with the call
\* record: nothing when _prepare_schema raised before it was reached
Asked(tbls, fns, answer) ==
    IF PrepareSchemaRaises(tbls, fns)
    THEN [kind |-> "not asked", message |-> ""]
    ELSE [kind |-> answer.kind,
          message |-> IF answer.kind = "ok" THEN "" ELSE answer.message]

\* sql(sql, debug), whole: schema, parser, conversion, renaming, assign
Sql(selects, unions) ==
    /\ AllIdle
    /\ \E sql \in QueryTexts, debug \in BOOLEAN :
        \E answer \in ExternalAnswers(PrepareSchema(tables, functions), selects, unions) :
            LET o == SqlOutcome(tables, functions, sql, debug, answer)
            IN /\ out' = o
               /\ call' = [op |-> "sql", sql |-> sql, debug |-> debug,
                           external |-> Asked(tables, functions, answer)]
               /\ tables' = IF o.final = None
                            THEN tables
                            ELSE TablesAfterRename(tables, o.ref, o.final[1])
    /\ UNCHANGED <<functions, aggregations, threads>>

Next ==
    \/ RegisterDaskTable
    \/ RegisterFunction
    \/ RegisterAggregation
    \/ Sql(SampleSelects, SampleUnions)

Spec == Init /\ [][Next]_vars

\* ------------------------------------------------- concurrent sql() calls
\* A thread enters sql(); tables0 and functions0 keep the registries as they
\* are at that moment
SqlCall(th) ==
    /\ threads[th].pc = "idle"
    /\ threads' = [threads EXCEPT ![th] =
            [Idle EXCEPT !.pc = "_prepare_schema",
                         !.tables0 = tables, !.functions0 = functions]]
    /\ UNCHANGED <<tables, functions, aggregations, call, out>>

\* _get_ral: _prepare_schema reads both registries
SqlPrepareSchema(th) ==
    /\ threads[th].pc = "_prepare_schema"
    /\ threads' = [threads EXCEPT ![th] =
            IF PrepareSchemaRaises(tables, functions)
            THEN [@ EXCEPT !.pc = "raised"]
            ELSE [@ EXCEPT !.pc = "generator",
                           !.schema = Some(PrepareSchema(tables, functions))]]
    /\ UNCHANGED <<tables, functions, aggregations, call, out>>

\* _get_ral: the parser answers for the schema it was given: a failure, or
\* SELECT * FROM one of the schema's tables
SqlGenerator(th) ==
    /\ threads[th].pc = "generator"
    /\ \E answer \in ExternalAnswers(threads[th].schema[1], {}, {}) :
        threads' = [threads EXCEPT ![th] =
            IF answer.kind # "ok"
            THEN [@ EXCEPT !.pc = "raised"]
            ELSE [@ EXCEPT !.pc = "convert",
                           !.rel = Some(answer.rel),
                           !.select_names = SelectNames(answer)]]
    /\ UNCHANGED <<tables, functions, aggregations, call, out>>

\* RelConverter.convert: the table scan reads the table registry
SqlConvert(th) ==
    /\ threads[th].pc = "convert"
    /\ threads' = [threads EXCEPT ![th] =
            [@ EXCEPT !.pc = "rename",
                      !.dc = Some(Convert(threads[th].rel[1], tables))]]
    /\ UNCHANGED <<tables, functions, aggregations, call, out>>

\* The renaming step and assign(); the call has its result
SqlRename(th) ==
    /\ threads[th].pc = "rename"
    /\ LET final == FinalContainer(threads[th].dc[1], threads[th].select_names)
       IN /\ threads' = [threads EXCEPT ![th] =
                [@ EXCEPT !.pc = "returned",
                          !.final = Some(final),
                          !.result = IF AssignRaises(final) THEN None
                                     ELSE Some(assign(final))]]
          /\ tables' = TablesAfterRename(tables, threads[th].rel[1].table, final)
    /\ UNCHANGED <<functions, aggregations, call, out>>

\* The caller takes the result or the exception; the thread leaves sql()
SqlReturn(th) ==
    /\ threads[th].pc \in {"returned", "raised"}
    /\ threads' = [threads EXCEPT ![th] = Idle]
    /\ UNCHANGED <<tables, functions, aggregations, call, out>>

\* Registrations run only while no sql() call is in flight (one writer at a
\* time, no reader beside it); sql() calls interleave freely
NextConcurrent ==
    \/ RegisterDaskTable
    \/ RegisterFunction
    \/ RegisterAggregation
    \/ \E th \in Threads :
        \/ SqlCall(th)
        \/ SqlPrepareSchema(th)
        \/ SqlGenerator(th)
        \/ SqlConvert(th)
        \/ SqlRename(th)
        \/ SqlReturn(th)

SpecConcurrent == Init /\ [][NextConcurrent]_vars

\* ------------------------------------------------- queries of any shape
\* A context with no table or with one table registered under "t"
InitSelect ==
    /\ tables \in {<< >>} \cup {register_dask_table(<< >>, df, <<"t">>) : df \in Frames}
    /\ functions = << >>
    /\ aggregations = << >>
    /\ call = [op |-> "__init__"]
    /\ out = NoOutcome
    /\ threads = [th \in Threads |-> Idle]

NextSelect == Sql(SelectShapes, UnionShapes)

SpecSelect == InitSelect /\ [][NextSelect]_vars

\* ============================================================== properties
\* No two entries of a registry have the same case-folded key
OneEntryPerFoldedName(d) ==
    \A i, j \in 1..Len(d) : i # j => lower(d[i].key) # lower(d[j].key)

\* Every entry of d whose key does not case-fold to k is in e with the same
\* value, and e has no key that is neither in d nor k
OthersKept(d, e, k) ==
    /\ \A i \in 1..Len(d) :
            lower(d[i].key) # k => DictHas(e, d[i].key) /\ DictGet(e, d[i].key) = d[i].value
    /\ \A j \in 1..Len(e) : e[j].key = k \/ DictHas(d, e[j].key)

\* C1: a register_dask_table step leaves exactly one entry per case-folded
\* name; the entry under the case-folded name of the call holds the
\* registered dataframe under its own column names; every other entry is as
\* before; and no other operation changes the table registry.
C1_TableRegistry ==
    [][ /\ OneEntryPerFoldedName(tables')
        /\ call'.op = "register_dask_table" =>
            /\ DictHas(tables', lower(call'.name))
            /\ DictGet(tables', lower(call'.name)).df = call'.df
            /\ Columns(DictGet(tables', lower(call'.name)).column_container)
                    = call'.df.columns
            /\ Labels(DictGet(tables', lower(call'.name)).column_container)
                    = call'.df.columns
            /\ OthersKept(tables, tables', lower(call'.name))
        /\ call'.op # "register_dask_table" => tables' = tables
      ]_vars

\* "T" was registered after "t" and "u": the entry of "t" was replaced in
\* place, next to the entry of "u"
C1_Witness ==
    /\ call.op = "register_dask_table"
    /\ call.name = <<"T">>
    /\ DictKeys(tables) = << <<"t">>, <<"u">> >>
    /\ DictGet(tables, <<"t">>).df = call.df
    /\ DictGet(tables, <<"u">>).df # call.df

\* C2: a register_function or register_aggregation step leaves exactly one
\* entry per case-folded name; the entry under the case-folded name of the
\* call has the callable, parameters and return type of the call and the
\* flag of the method called, whatever the entry before was; every other
\* entry is as before; and no other operation changes the function registry.
C2_FunctionRegistry ==
    [][ /\ OneEntryPerFoldedName(functions')
        /\ call'.op \in {"register_function", "register_aggregation"} =>
            /\ DictHas(functions', lower(call'.name))
            /\ DictGet(functions', lower(call'.name)).f = call'.args.f
            /\ DictGet(functions', lower(call'.name)).parameters = call'.args.parameters
            /\ DictGet(functions', lower(call'.name)).return_type = call'.args.return_type
            /\ DictGet(functions', lower(call'.name)).aggregation
                    = (call'.op = "register_aggregation")
            /\ OthersKept(functions, functions', lower(call'.name))
        /\ call'.op \notin {"register_function", "register_aggregation"} =>
            functions' = functions
      ]_vars

\* An aggregation was registered as "F" over a scalar function
C2_Witness ==
    /\ call.op = "register_aggregation"
    /\ call.name = <<"F">>
    /\ call.previous = Some(FALSE)
    /\ Len(functions) = 1
    /\ functions[1].key = <<"f">>
    /\ functions[1].value.aggregation

\* No two items of a sequence are equal
PairwiseDistinct(s) == \A i, j \in 1..Len(s) : i # j => s[i] # s[j]

\* The last call was a sql() that got as far as the final renaming step
Renamed == call.op = "sql" /\ out.op = "sql" /\ out.final # None

\* C3: when an output-name list was captured, every column of the converted
\* Data Container whose Logical Name starts with "EXPR$" carries, after the
\* renaming step, the select-list item at its position.
C3_EverySyntheticRenamed ==
    (Renamed /\ out.select_names # None) =>
        \A i \in 1..Len(out.dc[1].column_container) :
            startswith(out.dc[1].column_container[i].name, EXPR) =>
                /\ i <= Len(out.select_names[1])
                /\ out.final[1].column_container[i].name = out.select_names[1][i]

\* C4: the renaming step keeps the number of columns, their order and their
\* Physical Labels and the dataframe; a column whose Logical Name does not
\* start with "EXPR$" keeps its name; with no output-name list (top-level
\* node not a SqlSelect) every Logical Name is kept.
C4_RenameFrame ==
    Renamed =>
        /\ Len(out.final[1].column_container) = Len(out.dc[1].column_container)
        /\ Labels(out.final[1].column_container) = Labels(out.dc[1].column_container)
        /\ out.final[1].df = out.dc[1].df
        /\ \A i \in 1..Len(out.dc[1].column_container) :
                ~startswith(out.dc[1].column_container[i].name, EXPR) =>
                    out.final[1].column_container[i].name
                        = out.dc[1].column_container[i].name
        /\ out.select_names = None =>
                Columns(out.final[1].column_container) = Columns(out.dc[1].column_container)

\* A plain SELECT whose result had an EXPR$ column, which was renamed, after
\* a column with a name of its own, which a select item was zipped with
C4_Witness ==
    /\ Renamed
    /\ out.select_names # None
    /\ Len(out.select_names[1]) = 2
    /\ Len(out.dc[1].column_container) = 2
    /\ ~startswith(out.dc[1].column_container[1].name, EXPR)
    /\ startswith(out.dc[1].column_container[2].name, EXPR)
    /\ out.final[1].column_container[2].name # out.dc[1].column_container[2].name
    /\ out.select_names[1][1] # out.dc[1].column_container[1].name

\* C5: register_dask_table(df, name) followed immediately by SELECT * FROM
\* name returns a dataframe whose column names are df's, in df's order.
C5_SelectStarRoundTrip ==
    [][ ( /\ call.op = "register_dask_table"
          /\ call'.op = "sql"
          /\ out'.ref = Some(lower(call.name))
          /\ out'.select_names = Some(<<Star>>) )
        => /\ out'.result # None
           /\ out'.result[1].columns = call.df.columns
      ]_vars

\* C6: when the external parser or validator fails, sql() raises exactly one
\* ParsingException with the query text and the external message, whose
\* cause is the external exception with debug set and is suppressed without;
\* nothing is returned and the registries are as before the call.
C6_ParsingException ==
    [][ ( /\ call'.op = "sql"
          /\ call'.external.kind \in {"SqlParseException", "ValidationException"} )
        => /\ out'.op = "sql"
           /\ Len(out'.raised) = 1
           /\ out'.raised[1].type = "ParsingException"
           /\ out'.raised[1].sql = call'.sql
           /\ out'.raised[1].message = call'.external.message
           /\ (out'.raised[1].cause # None) <=> call'.debug
           /\ call'.debug =>
                out'.raised[1].cause =
                    Some([type |-> call'.external.kind, message |-> call'.external.message])
           /\ out'.result = None
           /\ tables' = tables
           /\ functions' = functions
           /\ aggregations' = aggregations
      ]_vars

\* A validation failure without debug, with a table and a function registered
C6_Witness ==
    /\ call.op = "sql"
    /\ call.external.kind = "ValidationException"
    /\ ~call.debug
    /\ Len(out.raised) = 1
    /\ out.raised[1].cause = None
    /\ out.raised[1].sql = "q2"
    /\ Len(tables) > 0
    /\ Len(functions) > 0

\* A column type, a function parameter type or a function return type of
\* the registries has no SQL equivalent
UnmappableRegistered ==
    \/ \E i \in 1..Len(tables) : \E j \in 1..Len(tables[i].value.df.dtypes) :
            HasNoSqlType(tables[i].value.df.dtypes[j])
    \/ \E i \in 1..Len(functions) :
            \/ HasNoSqlType(functions[i].value.return_type)
            \/ \E j \in 1..Len(functions[i].value.parameters) :
                    HasNoSqlType(functions[i].value.parameters[j][2])

\* C7: with a type that has no SQL equivalent in a registry, sql() fails in
\* _prepare_schema: that is the only step made, so no getSqlNode,
\* validation, optimization or plan conversion is started, and no schema
\* reaches the parser.
C7_TypeFailureBeforeParsing ==
    (call.op = "sql" /\ UnmappableRegistered) =>
        /\ out.trace = <<"_prepare_schema">>
        /\ Len(out.raised) = 1
        /\ out.raised[1].type = "TypeMappingError"
        /\ out.schema = None
        /\ out.dc = None
        /\ out.result = None

\* sql() failed on a function parameter type, every column type and return
\* type having a SQL equivalent
C7_Witness ==
    /\ call.op = "sql"
    /\ out.trace = <<"_prepare_schema">>
    /\ Len(tables) > 0
    /\ \A i \in 1..Len(tables) : \A j \in 1..Len(tables[i].value.df.dtypes) :
            ~HasNoSqlType(tables[i].value.df.dtypes[j])
    /\ \A i \in 1..Len(functions) : ~HasNoSqlType(functions[i].value.return_type)
    /\ UnmappableRegistered

\* C8: the schema a sql() call hands to the parser has exactly one table per
\* key of the table registry and exactly one function per key of the
\* function registry, as they are at that call, and a function is a
\* DaskAggregateFunction exactly if its entry's is-aggregation flag is set.
C8_SchemaFresh ==
    (call.op = "sql" /\ out.schema # None) =>
        LET schema == out.schema[1] IN
        /\ Len(schema.tables) = Len(tables)
        /\ PairwiseDistinct([i \in 1..Len(schema.tables) |-> schema.tables[i].name])
        /\ {schema.tables[i].name : i \in 1..Len(schema.tables)}
                = {tables[i].key : i \in 1..Len(tables)}
        /\ Len(schema.functions) = Len(functions)
        /\ PairwiseDistinct([i \in 1..Len(schema.functions) |-> schema.functions[i].name])
        /\ {schema.functions[i].name : i \in 1..Len(schema.functions)}
                = {functions[i].key : i \in 1..Len(functions)}
        /\ \A i \in 1..Len(schema.functions) :
                /\ schema.functions[i].class \in {"DaskAggregateFunction", "DaskScalarFunction"}
                /\ (schema.functions[i].class = "DaskAggregateFunction")
                     <=> DictGet(functions, schema.functions[i].name).aggregation

\* A query whose schema has two tables and the function "f" as an aggregation
C8_Witness ==
    /\ call.op = "sql"
    /\ out.schema # None
    /\ Len(out.schema[1].tables) = 2
    /\ Len(out.schema[1].functions) = 1
    /\ out.schema[1].functions[1].class = "DaskAggregateFunction"
    /\ out.schema[1].functions[1].name = <<"f">>

\* C10: if the Logical Names of the converted Data Container are pairwise
\* distinct, so are the Logical Names after the renaming step.
C10_RenamedNamesDistinct ==
    (Renamed /\ PairwiseDistinct(Columns(out.dc[1].column_container))) =>
        PairwiseDistinct(Columns(out.final[1].column_container))

\* C9: while sql() calls interleave and no registration runs, the registries
\* are what they were when each call in flight began; the schema a call
\* built is the schema of the registries at its begin, and the Data
\* Container its table scan took is the entry of the table registry at its
\* begin: what the call would have got running alone.
C9_ReadersOnly ==
    \A th \in Threads :
        threads[th].pc # "idle" =>
            /\ tables = threads[th].tables0
            /\ functions = threads[th].functions0
            /\ threads[th].schema # None =>
                /\ Len(threads[th].schema[1].tables) = Len(threads[th].tables0)
                /\ \A i \in 1..Len(threads[th].tables0) :
                        /\ threads[th].schema[1].tables[i].name = threads[th].tables0[i].key
                        /\ [j \in 1..Len(threads[th].schema[1].tables[i].columns) |->
                                threads[th].schema[1].tables[i].columns[j].name]
                             = threads[th].tables0[i].value.df.columns
                /\ [i \in 1..Len(threads[th].schema[1].functions) |->
                        threads[th].schema[1].functions[i].name]
                     = DictKeys(threads[th].functions0)
            /\ threads[th].dc # None =>
                threads[th].dc[1] =
                    DictGet(threads[th].tables0, threads[th].rel[1].table[1])

\* One call has returned a SELECT * whose first column was renamed while the
\* other call, begun before that, is about to scan the same table
C9_Witness ==
    /\ threads["A"].pc = "returned"
    /\ threads["A"].final # None
    /\ threads["A"].final[1] # threads["A"].dc[1]
    /\ threads["B"].pc = "convert"
    /\ threads["B"].rel = threads["A"].rel
    /\ Len(functions) > 0

====
